---- MODULE Spec2Model ----
(***************************************************************************)
(* Model of the runtime dispatcher of d-exclaimation/union:                 *)
(*   match(input, matchers)  and  matches(matchers)  (src/src/index.ts).    *)
(*                                                                         *)
(* A JavaScript object is modelled by its own enumerable string keys in    *)
(* enumeration order (order) and the value bound to each key (get).  A     *)
(* handler is an opaque caller-supplied function: calling handler h with   *)
(* argument a returns the uninterpreted value <<h, a>>.                    *)
(***************************************************************************)
EXTENDS Integers, Sequences, FiniteSets, TLC

\* ------------------------------------------------------------------ bounds
\* Largest number of entries of a handler table.
MaxEntries == 3
\* Largest number of calls made in one behaviour.
MaxCalls == 2

\* ------------------------------------------------------------ value universe
\* Discriminant values: the README's variants, and the literal "*".
Tags == {"text", "binary", "unknown", "*"}
\* Payload field of a tagged value (the README's length: 10).
Lengths == {0, 10}
\* Caller-supplied handler functions.
Handlers == {"h1", "h2"}
\* The value of an optional property that is present but holds no function.
Undefined == "undefined"

\* Signature<K> plus a payload: { __type: K, length: number }.
Inputs == [__type : Tags, length : Lengths]

Range(s) == {s[i] : i \in 1..Len(s)}

\* Key enumeration orders: sequences of distinct keys.
Orders ==
  {s \in UNION {[1..n -> Tags] : n \in 0..MaxEntries} :
     \A i, j \in 1..Len(s) : i /= j => s[i] /= s[j]}

\* Plain objects with string keys bound to a handler or to undefined.
Objects ==
  UNION {{[order |-> s, get |-> g] : g \in [Range(s) -> Handlers \cup {Undefined}]} :
         s \in Orders}

\* ExhausiveMatches: either a "*" function with the per-variant entries
\* optional (Partial admits a key holding undefined), or Matches, where
\* every entry is a function.
ExhausiveMatches ==
  {o \in Objects :
     \/ ("*" \in DOMAIN o.get /\ o.get["*"] \in Handlers)
     \/ \A k \in DOMAIN o.get : o.get[k] \in Handlers}

\* ------------------------------------------------------- JavaScript runtime
\* Object.entries(o): the [key, value] pairs in enumeration order.
ObjectEntriesFirstOnly(o) ==
  [i \in 1..(IF Len(o.order) = 0 THEN 0 ELSE 1) |-> <<o.order[i], o.get[o.order[i]]>>]

ObjectEntries(o) ==
  [i \in 1..Len(o.order) |-> <<o.order[i], o.get[o.order[i]]>>]

\* key in o
HasProperty(key, o) == key \in DOMAIN o.get

\* The outcome of one call of match, with what it did on the way:
\*   kind    "return" or "throw"
\*   value   the returned value (<<>> when it throws)
\*   error   the thrown error ("none" when it returns)
\*   invoked the handlers invoked, in order, as <<key, handler, argument>>
\*   path    "exact" (line 115), "wildcard" (line 120) or "none" (line 123)
\*   scanned the number of entries the loop examined
Returned(key, handler, arg, path, scanned) ==
  [kind |-> "return", value |-> <<handler, arg>>, error |-> "none",
   invoked |-> <<<<key, handler, arg>>>>, path |-> path, scanned |-> scanned]

Thrown(error, path, scanned) ==
  [kind |-> "throw", value |-> <<>>, error |-> error,
   invoked |-> <<>>, path |-> path, scanned |-> scanned]

\* handler(input) at the entry keyed key: calling a value that is no function
\* throws a TypeError.
callIgnoringPayload(key, handler, arg, path, scanned) ==
  IF handler \in Handlers
  THEN Returned(key, handler, [__type |-> arg.__type, length |-> 0], path, scanned)
  ELSE Thrown("TypeError", path, scanned)

call(key, handler, arg, path, scanned) ==
  IF handler \in Handlers
  THEN Returned(key, handler, arg, path, scanned)
  ELSE Thrown("TypeError", path, scanned)

\* ------------------------------------------------------------------- match
\* Lines 119-123: the wildcard lookup and the final throw.
wildcardNoThrow(input, matchers, scanned) ==
  IF HasProperty("*", matchers)
  THEN call("*", matchers.get["*"], input, "wildcard", scanned)
  ELSE [kind |-> "return", value |-> <<>>, error |-> "none",
        invoked |-> <<>>, path |-> "none", scanned |-> scanned]

wildcard(input, matchers, scanned) ==
  IF HasProperty("*", matchers)
  THEN call("*", matchers.get["*"], input, "wildcard", scanned)
  ELSE Thrown("Pattern unmacthed", "none", scanned)

RECURSIVE scan(_, _, _)

\* The loop calling the first entry's handler instead of the matching one.
RECURSIVE scanCallsFirst(_, _, _)
scanCallsFirst(input, matchers, i) ==
  LET entries == ObjectEntries(matchers) IN
  IF i > Len(entries) THEN wildcard(input, matchers, Len(entries))
  ELSE IF input.__type = entries[i][1]
       THEN call(entries[1][1], entries[1][2], input, "exact", i)
       ELSE scanCallsFirst(input, matchers, i + 1)

\* The loop without the return: after the matching handler ran, the code
\* below the loop runs too.
scanNoReturn(input, matchers, i) ==
  LET entries == ObjectEntries(matchers)
      hits == {j \in i..Len(entries) : input.__type = entries[j][1]}
      rest == wildcard(input, matchers, Len(entries))
  IN IF hits = {} THEN rest
     ELSE LET j == CHOOSE h \in hits : TRUE
              first == call(entries[j][1], entries[j][2], input, "exact", j)
          IN IF first.kind = "throw" THEN first
             ELSE [rest EXCEPT !.invoked = first.invoked \o rest.invoked]

\* The loop treating a "*" entry as matching whatever it meets first.
RECURSIVE scanWildcardInline(_, _, _)
scanWildcardInline(input, matchers, i) ==
  LET entries == ObjectEntries(matchers) IN
  IF i > Len(entries) THEN wildcard(input, matchers, Len(entries))
  ELSE IF input.__type = entries[i][1] \/ entries[i][1] = "*"
       THEN call(entries[i][1], entries[i][2], input,
                 IF input.__type = entries[i][1] THEN "exact" ELSE "wildcard", i)
       ELSE scanWildcardInline(input, matchers, i + 1)

\* Lines 113-117: for (const [key, handler] of Object.entries(matchers)),
\* from the i-th entry on; falls through to lines 119-123.
scan(input, matchers, i) ==
  LET entries == ObjectEntries(matchers) IN
  IF i > Len(entries) THEN wildcard(input, matchers, Len(entries))
  ELSE IF input.__type = entries[i][1]
       THEN call(entries[i][1], entries[i][2], input, "exact", i)
       ELSE scan(input, matchers, i + 1)

\* match with the wildcard lookup ahead of the loop.
matchWildcardFirst(input, matchers) ==
  IF HasProperty("*", matchers)
  THEN call("*", matchers.get["*"], input, "wildcard", 0)
  ELSE scan(input, matchers, 1)

\* Lines 109-124.
match(input, matchers) == scan(input, matchers, 1)

\* ------------------------------------------------------------------- state
VARIABLES
  input,     \* the tagged value of the current (last) call
  matchers,  \* the handler table the caller holds
  closure,   \* <<>> or <<m>>: the function matches(m) returned
  result,    \* the outcome of the last call; kind "none" before any call
  prev,      \* the outcome of the call before the last one
  via,       \* "none", "match" or "closure": how the last call was made
  calls      \* number of calls made

vars == <<input, matchers, closure, result, prev, via, calls>>

NoResult ==
  [kind |-> "none", value |-> <<>>, error |-> "none",
   invoked |-> <<>>, path |-> "none", scanned |-> 0]

\* Lines 132-136: matches(matchers) returns (input) => match(input, matchers).
matches(m) == <<m>>

\* The returned closure answering from its first call's result.
applyMemo(f, v) == IF via = "closure" /\ result.kind = "return" THEN result ELSE match(v, f[1])

\* Line 135: the body of the returned closure.
apply(f, v) == match(v, f[1])

Init ==
  /\ input \in Inputs
  /\ matchers \in ExhausiveMatches
  /\ closure = <<>>
  /\ result = NoResult
  /\ prev = NoResult
  /\ via = "none"
  /\ calls = 0

\* A call that removes the entry it dispatched to from the table.
MatchConsuming ==
  /\ calls < MaxCalls
  /\ result' = match(input, matchers)
  /\ prev' = result
  /\ via' = "match"
  /\ calls' = calls + 1
  /\ matchers' =
       IF result'.path = "none" THEN matchers
       ELSE LET gone == IF result'.path = "exact" THEN input.__type ELSE "*"
            IN [order |-> SelectSeq(matchers.order, LAMBDA x : x /= gone),
                get |-> [x \in DOMAIN matchers.get \ {gone} |-> matchers.get[x]]]
  /\ UNCHANGED <<input, closure>>

\* The caller calls match(input, matchers).
Match ==
  /\ calls < MaxCalls
  /\ result' = match(input, matchers)
  /\ prev' = result
  /\ via' = "match"
  /\ calls' = calls + 1
  /\ UNCHANGED <<input, matchers, closure>>

\* The caller calls matches(matchers) and keeps the returned function.
Matches ==
  /\ closure = <<>>
  /\ closure' = matches(matchers)
  /\ UNCHANGED <<input, matchers, result, prev, via, calls>>

\* The caller applies the kept function to a value v.
Apply ==
  /\ closure /= <<>>
  /\ calls < MaxCalls
  /\ \E v \in Inputs :
       /\ input' = v
       /\ result' = apply(closure, v)
  /\ prev' = result
  /\ via' = "closure"
  /\ calls' = calls + 1
  /\ UNCHANGED <<matchers, closure>>

Next == Match \/ Matches \/ Apply

Spec == Init /\ [][Next]_vars

\* ------------------------------------------------------------ properties
\* A call has been made: result is the outcome of calling with input.
Called == via /= "none"
\* The discriminant of the value of the last call.
Discriminant == input.__type
\* The handler table of the last call: the caller's, or the closure's.
Table == IF via = "closure" THEN closure[1] ELSE matchers
Keys == DOMAIN Table.get
AllFunctions == \A k \in Keys : Table.get[k] \in Handlers
\* The only thing done was one invocation of the handler bound to key.
InvokedOnly(key) == result.invoked = <<<<key, Table.get[key], input>>>>

C2_WildcardResult ==
  (Called /\ Discriminant \notin Keys /\ "*" \in Keys) =>
    /\ result.kind = "return"
    /\ result.value = <<Table.get["*"], input>>
    /\ InvokedOnly("*")

C2_Witness ==
  /\ Called
  /\ Discriminant \notin Keys /\ "*" \in Keys
  /\ input.length = 10
  /\ Len(Table.order) > 1
  /\ result.kind = "return"

\* C3: when the discriminant is no key of the table and the table has no
\* "*" entry, the call throws the unmatched-pattern error and invokes no
\* handler.
C3_UnmatchedThrows ==
  (Called /\ Discriminant \notin Keys /\ "*" \notin Keys) =>
    /\ result.kind = "throw"
    /\ result.error = "Pattern unmacthed"
    /\ result.invoked = <<>>

C3_Witness ==
  /\ Called
  /\ Discriminant \notin Keys /\ "*" \notin Keys
  /\ Len(Table.order) > 1
  /\ result.kind = "throw"

\* C4: every call of the function matches(H) returned has the outcome of a
\* fresh match(v, H) on the table H given to matches, whatever the earlier
\* calls were and however they ended; the function keeps the table it was
\* given.
C4_CurryingTransparent ==
  (via = "closure") =>
    /\ closure = <<matchers>>
    /\ result = match(input, matchers)

C4_Witness ==
  /\ via = "closure"
  /\ calls >= 2
  /\ prev.kind = "return"
  /\ result.kind = "throw"

\* The README's default-case example: the value and the table's shape.
ReadmeDefaultCase ==
  /\ Called
  /\ input = [__type |-> "binary", length |-> 10]
  /\ Table.order = <<"text", "binary", "*">>
  /\ AllFunctions

C6_OnlyUnmatchedPattern ==
  Called =>
    /\ \/ result.kind = "return" /\ Len(result.invoked) = 1
       \/ result.kind = "throw" /\ result.error = "Pattern unmacthed"
    /\ (result.kind = "throw") <=> (Discriminant \notin Keys /\ "*" \notin Keys)

C8_WildcardTagOnce ==
  (Called /\ Discriminant = "*" /\ "*" \in Keys) =>
    /\ InvokedOnly("*")
    /\ result.path = "exact"
    /\ result.kind = "return"
    /\ result.value = <<Table.get["*"], input>>

C8_Witness ==
  /\ Called
  /\ Discriminant = "*" /\ "*" \in Keys
  /\ Len(Table.order) > 1
  /\ Len(result.invoked) = 1

\* C9: a call, returning or throwing, leaves the handler table and the kept
\* closure as they were, hands the handler the value it was given, and a
\* direct call leaves the caller's value as it was.
C9_ArgumentsUnchanged ==
  [][(calls' = calls + 1) =>
       /\ matchers' = matchers
       /\ closure' = closure
       /\ (via' = "match") => (input' = input)
       /\ \A i \in 1..Len(result'.invoked) : result'.invoked[i][3] = input']_vars

C9_Witness ==
  /\ calls >= 2
  /\ prev.kind = "return"
  /\ result.kind = "throw"
  /\ closure = <<matchers>>

\* The ways to list n entries in another order.
Reorderings ==
  [n \in 0..MaxEntries |->
     {f \in [1..n -> 1..n] : \A i, j \in 1..n : i /= j => f[i] /= f[j]}]

\* C10: the outcome does not depend on the order in which the table lists
\* its entries: every table with the same keys bound to the same handlers,
\* in any order, gives the same handler, result or error.
C10_OrderIndependent ==
  Called =>
    \A f \in Reorderings[Len(Table.order)] :
      LET p == [i \in 1..Len(Table.order) |-> Table.order[f[i]]]
          other == match(input, [order |-> p, get |-> Table.get])
      IN
        /\ other.kind = result.kind
        /\ other.value = result.value
        /\ other.error = result.error
        /\ other.invoked = result.invoked

C10_Witness ==
  /\ Called
  /\ Len(Table.order) = 3
  /\ Table.order[1] = "*"
  /\ Discriminant = Table.order[3]
  /\ result.kind = "return"

====
